---- MODULE Spec2Model ----
(***************************************************************************)
(* include-wgsl-oil: the macro-input parser (src/src/lib.rs), the typed    *)
(* constants (src/src/lib.rs) and the composition driver                   *)
(* Sourcecode::compose / Sourcecode::complete (src/src/source.rs).         *)
(*                                                                         *)
(* Four specifications share the variables:                                *)
(*   Spec           - Sourcecode::compose followed by Sourcecode::complete *)
(*   SaturationSpec - the requirement loop of compose, with the fairness   *)
(*                    of a sequential program                              *)
(*   ParseSpec      - the `includes = [...]` arm of MacroInput::parse      *)
(*   ConstSpec      - the shader-def loop of compose over typed constants  *)
(***************************************************************************)
EXTENDS Integers, Sequences, FiniteSets, TLC

VARIABLES
    pc,            \* position in compose / complete / parse
    disk,          \* Text Provider: existing .wgsl files -> the names they import
    exports,       \* Sourcecode.exports
    includes,      \* Sourcecode.includes / MacroInput.includes
    constants,     \* Sourcecode.constants.inner
    next_const,    \* compose: index of the next constant of the shader-def loop
    shader_defs,   \* compose: shader_defs
    errors,        \* Sourcecode.errors
    dependents,    \* Sourcecode.dependents
    reqs,          \* compose: reqs
    next_reqs,     \* compose: next_reqs
    iter,          \* compose: what the for loop over reqs has still to visit
    composer,      \* Composer: names for which contains_module is true
    submitted,     \* history: names handed to the Composition Engine, in order
    rejected,      \* history: names whose submission the engine rejected
    import_order,  \* compose: Pending, or what find_import_order returned
    idx,           \* compose: index of the next import of import_order.modules()
    rootSubmitted, \* history: the root was handed to make_naga_module
    ret,           \* what compose returned: "pending", "None" or "Some"
    readOk,        \* history: the read of the root text at line 122 succeeded
    input,         \* parse: the `includes = [...]` lists still to parse
    include_paths, \* parse: include_paths (a stack)
    new_includes,  \* parse: new_includes
    log            \* parse: history of registrations and warnings on stderr

vars == <<pc, disk, exports, includes, constants, next_const, shader_defs, errors, dependents,
          reqs, next_reqs, iter, composer, submitted, rejected, import_order, idx, rootSubmitted,
          ret, readOk,
          input, include_paths, new_includes, log>>

composeVars == <<disk, exports, includes, errors, dependents, reqs, next_reqs, iter,
                 composer, submitted, rejected, import_order, idx,
                 rootSubmitted, ret, readOk>>

parseVars == <<input, include_paths, new_includes, log>>

constVars == <<constants, next_const, shader_defs>>

----------------------------------------------------------------------------
(* Bounds of the model *)

MaxSubreqs == 1       \* imports of one registered include
MaxFileImports == 1   \* imports of one non-root file
MaxRootImports == 2   \* imports of the root file

\* The names a module may import.  A name of VNames may be registered as an
\* include, a name of FNames may be a file on disk; a name that is neither
\* registered nor a file is a missing import.  No file imports the root.
VNames == {"v1", "v2"}
FNames == {"a", "b"}
Names == VNames \cup FNames
Root == "root"

EmptyMap == [x \in {} |-> {}]

SubsetsUpTo(S, n) == {T \in SUBSET S : Cardinality(T) <= n}

PathOf(n) == <<"path", n>>

----------------------------------------------------------------------------
(* Diagnostics pushed to Sourcecode.errors *)

Diag(kind, names) == [kind |-> kind, names |-> names]

push_error(message) == errors' = Append(errors, message)

----------------------------------------------------------------------------
(* Text Provider and Include Registry contents the runs start from *)

FileText(imports, exported) == [imports |-> imports, exported |-> exported]

\* disk: the root file always exists (Sourcecode::new panics otherwise); each
\* name of FNames is a file or is absent.
Disks ==
    UNION {{d \in [{Root} \cup D -> {FileText(i, e) : i \in SubsetsUpTo(Names, MaxRootImports),
                                                      e \in {{}, {"foo"}}}] :
              \A f \in D : /\ d[f].exported = {}
                           /\ Cardinality(d[f].imports) <= MaxFileImports} :
           D \in SUBSET FNames}

Files(d) == DOMAIN d \ {Root}

Include(subreqs, path, src) == [subreqs |-> subreqs, path |-> path, src |-> src]

\* includes: HashMap<String, (Vec<String>, PathBuf, String)>
Registries ==
    UNION {[D -> {Include(s, <<"inc">>, <<"src">>) : s \in SubsetsUpTo(Names, MaxSubreqs)}] :
            D \in SUBSET VNames}

\* The registry as MacroInput::parse leaves it: every entry carries the path
\* and the text of the file it was read from.
Registered(r) == [n \in DOMAIN r |-> Include(r[n].subreqs, PathOf(n), <<"src", n>>)]

----------------------------------------------------------------------------
(* ImportOrder::calculate (imports.rs), from source_path and the project   *)
(* root: the files reachable from the root through imports that are not    *)
(* registered includes, each after the files it imports.                   *)

FileImports(f) == {n \in disk[f].imports : n \in Files(disk) /\ n \notin DOMAIN includes}

RECURSIVE Closure(_)
Closure(S) ==
    LET T == S \cup UNION {FileImports(f) : f \in S}
    IN  IF T = S THEN S ELSE Closure(T)

Reachable == Closure(FileImports(Root))

Unresolved ==
    {n \in UNION {disk[f].imports : f \in Reachable \cup {Root}} :
        n \notin Files(disk) /\ n \notin DOMAIN includes}

OnCycle(f) == f \in Closure(FileImports(f))

CycleOf(f) == {g \in Reachable : g \in Closure(FileImports(f)) /\ f \in Closure(FileImports(g))}

HasCycle == \E f \in Reachable : OnCycle(f)

Perms(S) == {s \in [1..Cardinality(S) -> S] : \A i, j \in 1..Cardinality(S) : s[i] = s[j] => i = j}

TopoOrders(S) ==
    {s \in Perms(S) : \A i \in 1..Len(s) : \A g \in Closure(FileImports(s[i])) :
                          \E j \in 1..(i - 1) : s[j] = g}

CalculateErrors ==
    {Diag("UnresolvedImport", {n}) : n \in Unresolved}
        \cup {Diag("CyclicImport", CycleOf(f)) : f \in {g \in Reachable : OnCycle(g)}}

Pending == [ok |-> FALSE, err |-> Diag("pending", {})]

Calculate ==
    IF CalculateErrors # {}
    THEN {[ok |-> FALSE, err |-> e] : e \in CalculateErrors}
    ELSE {[ok |-> TRUE, imports |-> o] : o \in TopoOrders(Reachable)}

\* Module::to_composable_module_descriptor / to_naga_module_descriptor
\* (module.rs): Ok, or Err with the errors of that module.
DescriptorResults(n) == {<<>>, <<Diag("DescriptorError", {n})>>}

\* error::format_compose_error
format_compose_error(n) == Diag("CompositionError", {n})

----------------------------------------------------------------------------
(* Typed constants: TypedValue and From<TypedValue> for ShaderDefValue,     *)
(* lib.rs 42-91.  A syn::Lit::Int holds its base-10 digits, with a leading  *)
(* `-` for a negative literal; base10_parse::<N>() is N::from_str of them.  *)

I32Max == 2147483647
Limb == 65536             \* a u32 is kept as <<high, low>> halves of 16 bits

BoolLit(b) == [kind |-> "Bool", bool |-> b, neg |-> FALSE, digits |-> <<>>]
IntLit(neg, digits) == [kind |-> "Int", bool |-> FALSE, neg |-> neg, digits |-> digits]
OtherLit(kind) == [kind |-> kind, bool |-> FALSE, neg |-> FALSE, digits |-> <<>>]

TypedValue(ty, value) == [ty |-> ty, value |-> value]

Parsed(v) == [ok |-> TRUE, value |-> v]
ParseErr == [ok |-> FALSE, value |-> 0]

\* i32::from_str on the digits after a `+`: checked_mul(10) then checked_add(d)
RECURSIVE I32Positive(_, _)
I32Positive(acc, ds) ==
    IF ds = <<>> THEN Parsed(acc)
    ELSE IF acc > I32Max \div 10 THEN ParseErr
    ELSE IF acc * 10 > I32Max - Head(ds) THEN ParseErr
    ELSE I32Positive(acc * 10 + Head(ds), Tail(ds))

\* i32::from_str on the digits after a `-`: checked_mul(10) then checked_sub(d)
RECURSIVE I32Negative(_, _)
I32Negative(acc, ds) ==
    IF ds = <<>> THEN Parsed(acc)
    ELSE IF acc < -(I32Max \div 10) THEN ParseErr
    ELSE IF acc * 10 < (-I32Max - 1) + Head(ds) THEN ParseErr
    ELSE I32Negative(acc * 10 - Head(ds), Tail(ds))

\* i.base10_parse::<i32>()
base10_parse_i32(lit) ==
    IF lit.digits = <<>> THEN ParseErr
    ELSE IF lit.neg THEN I32Negative(0, lit.digits)
    ELSE I32Positive(0, lit.digits)

\* u32::from_str on digits: checked_mul(10) then checked_add(d), on 16-bit halves
RECURSIVE U32Digits(_, _)
U32Digits(acc, ds) ==
    IF ds = <<>> THEN Parsed(acc)
    ELSE LET low == acc[2] * 10 + Head(ds)
             high == acc[1] * 10 + low \div Limb
         IN  IF high >= Limb THEN ParseErr
             ELSE U32Digits(<<high, low % Limb>>, Tail(ds))

\* i.base10_parse::<u32>(): an unsigned from_str takes no `-` sign
base10_parse_u32(lit) ==
    IF lit.digits = <<>> \/ lit.neg THEN ParseErr
    ELSE U32Digits(<<0, 0>>, lit.digits)

ShaderDefValue(ty, v) == [ty |-> ty, value |-> v]
Converted(d) == [ok |-> TRUE, def |-> d]
Panic == [ok |-> FALSE, def |-> ShaderDefValue("none", 0)]

\* num as i32: the u32 read as a two's complement number
AsI32(v) == IF v[1] >= Limb \div 2 THEN (v[1] - Limb) * Limb + v[2] ELSE v[1] * Limb + v[2]

\* a conversion whose Int parses 32 bits and casts them
ShaderDefValueFromCast(value) ==
    CASE value.ty = "Bool" ->
            IF value.value.kind = "Bool"
            THEN Converted(ShaderDefValue("Bool", value.value.bool))
            ELSE Panic
      [] value.ty = "Int" ->
            IF value.value.kind = "Int" /\ base10_parse_u32(value.value).ok
            THEN Converted(ShaderDefValue("Int", AsI32(base10_parse_u32(value.value).value)))
            ELSE Panic
      [] value.ty = "UInt" ->
            IF value.value.kind = "Int" /\ base10_parse_u32(value.value).ok
            THEN Converted(ShaderDefValue("UInt", base10_parse_u32(value.value).value))
            ELSE Panic
      [] OTHER -> Panic

\* impl From<TypedValue> for ShaderDefValue, lib.rs 69-91
ShaderDefValueFrom(value) ==
    CASE value.ty = "Bool" ->
            IF value.value.kind = "Bool"
            THEN Converted(ShaderDefValue("Bool", value.value.bool))
            ELSE Panic
      [] value.ty = "Int" ->
            IF value.value.kind = "Int" /\ base10_parse_i32(value.value).ok
            THEN Converted(ShaderDefValue("Int", base10_parse_i32(value.value).value))
            ELSE Panic
      [] value.ty = "UInt" ->
            IF value.value.kind = "Int" /\ base10_parse_u32(value.value).ok
            THEN Converted(ShaderDefValue("UInt", base10_parse_u32(value.value).value))
            ELSE Panic
      [] OTHER -> Panic

\* compose 106-112: the shader defs before any constant is inserted
DebugDefs(debug_assertions) ==
    IF debug_assertions THEN [n \in {"__DEBUG"} |-> ShaderDefValue("Bool", TRUE)]
    ELSE EmptyMap

Insert(map, key, v) == [k \in DOMAIN map \cup {key} |-> IF k = key THEN v ELSE map[k]]

\* The literals the runs convert: the edges of the 32-bit ranges, a literal
\* beyond both, signed zero, and literals of the other kinds.
LitSamples ==
    {BoolLit(TRUE), BoolLit(FALSE), OtherLit("Float")}
    \cup {IntLit(FALSE, d) : d \in {<<0>>, <<1>>,
                                     <<2, 1, 4, 7, 4, 8, 3, 6, 4, 7>>,
                                     <<2, 1, 4, 7, 4, 8, 3, 6, 4, 8>>,
                                     <<3, 0, 0, 0, 0, 0, 0, 0, 0, 0>>,
                                     <<4, 2, 9, 4, 9, 6, 7, 2, 9, 5>>,
                                     <<4, 2, 9, 4, 9, 6, 7, 2, 9, 6>>,
                                     <<1, 0, 0, 0, 0, 0, 0, 0, 0, 0, 0>>}}
    \cup {IntLit(TRUE, d) : d \in {<<0>>, <<1>>,
                                    <<2, 1, 4, 7, 4, 8, 3, 6, 4, 8>>,
                                    <<2, 1, 4, 7, 4, 8, 3, 6, 4, 9>>}}

\* TypedValue::parse, lib.rs 48-67, admits the three type names only
TypedValues == {TypedValue(ty, l) : ty \in {"Bool", "Int", "UInt"}, l \in LitSamples}

Decl(name, value) == [name |-> name, value |-> value]

----------------------------------------------------------------------------
(* Sourcecode::compose, source.rs 101-222, and Sourcecode::complete        *)

\* return None / return Some(module)
Return(r) == /\ ret' = r
             /\ pc' = "returned"

\* 114-119: one round of `for (a, b) in &self.constants.inner`
InsertShaderDef ==
    /\ pc = "defs"
    /\ next_const <= Len(constants)
    /\ LET c == constants[next_const]
           r == ShaderDefValueFrom(c.value)
       IN  IF r.ok
           THEN /\ shader_defs' = Insert(shader_defs, c.name, r.def)
                /\ next_const' = next_const + 1
                /\ UNCHANGED pc
           ELSE /\ pc' = "panic"
                /\ UNCHANGED <<shader_defs, next_const>>
    /\ UNCHANGED <<constants, composeVars, parseVars>>

\* 121-128: read the root text and collect its requirements
ReadRoot ==
    /\ pc = "defs"
    /\ next_const > Len(constants)
    /\ \E ok \in BOOLEAN :
          IF ok
          THEN /\ reqs' = disk[Root].imports
               /\ readOk' = TRUE
               /\ pc' = "while"
               /\ UNCHANGED ret
          ELSE /\ Return("None")
               /\ UNCHANGED <<reqs, readOk>>
    /\ UNCHANGED <<disk, exports, includes, constVars, errors, dependents,
                   next_reqs, iter, composer, submitted, rejected, import_order, idx,
                   rootSubmitted, parseVars>>

\* 130-131: while !reqs.is_empty() { let mut next_reqs = HashSet::default(); for ...
WhileHead ==
    /\ pc = "while"
    /\ IF reqs = {}
       THEN /\ pc' = "order"
            /\ UNCHANGED <<next_reqs, iter>>
       ELSE /\ next_reqs' = {}
            /\ iter' = {r \in reqs : r \in DOMAIN includes}
            /\ pc' = "for"
    /\ UNCHANGED <<disk, exports, includes, constVars, errors, dependents,
                   reqs, composer, submitted, rejected, import_order, idx, rootSubmitted,
                   ret, readOk, parseVars>>

\* 133-159: one round of the for loop, for a requirement the registry holds
ForBody ==
    /\ pc = "for"
    /\ \E req \in iter :
          LET subreqs == includes[req].subreqs IN
          /\ iter' = iter \ {req}
          /\ IF req \in composer
             THEN UNCHANGED <<composer, submitted, rejected, next_reqs, pc>>
             ELSE IF \A sr \in subreqs : sr \in composer
             THEN \E accepted \in BOOLEAN :
                     /\ submitted' = Append(submitted, req)
                     /\ IF accepted
                        THEN /\ composer' = composer \cup {req}
                             /\ next_reqs' = next_reqs
                                   \cup {r \in subreqs : r \notin composer'} \cup {req}
                             /\ UNCHANGED <<rejected, pc>>
                        ELSE /\ rejected' = rejected \cup {req}
                             /\ pc' = "panic"
                             /\ UNCHANGED <<composer, next_reqs>>
             ELSE /\ next_reqs' = next_reqs
                        \cup {r \in subreqs : r \notin composer} \cup {req}
                  /\ UNCHANGED <<composer, submitted, rejected, pc>>
    /\ UNCHANGED <<disk, exports, includes, constVars, errors, dependents,
                   reqs, import_order, idx, rootSubmitted, ret, readOk, parseVars>>

\* 161: reqs = next_reqs;
ForEnd ==
    /\ pc = "for"
    /\ iter = {}
    /\ reqs' = next_reqs
    /\ pc' = "while"
    /\ UNCHANGED <<disk, exports, includes, constVars, errors, dependents,
                   next_reqs, iter, composer, submitted, rejected, import_order, idx,
                   rootSubmitted, ret, readOk, parseVars>>

\* 90-98 and 165-171: let import_order = self.find_import_order()?;
find_import_order ==
    /\ pc = "order"
    /\ \E r \in Calculate :
          /\ import_order' = r
          /\ IF r.ok
             THEN /\ pc' = "imports"
                  /\ UNCHANGED <<errors, ret>>
             ELSE /\ push_error(r.err)
                  /\ Return("None")
    /\ UNCHANGED <<disk, exports, includes, constVars, dependents, reqs,
                   next_reqs, iter, composer, submitted, rejected, idx, rootSubmitted,
                   readOk, parseVars>>

\* 172-194: one round of `for import in imports`
AddImport ==
    /\ pc = "imports"
    /\ idx <= Len(import_order.imports)
    /\ LET import == import_order.imports[idx] IN
       /\ dependents' = Append(dependents, PathOf(import))
       /\ \E desc \in DescriptorResults(import) :
             IF desc # <<>>
             THEN /\ errors' = errors \o desc
                  /\ Return("None")
                  /\ UNCHANGED <<composer, submitted, rejected, idx>>
             ELSE /\ submitted' = Append(submitted, import)
                  /\ idx' = idx + 1
                  /\ UNCHANGED <<pc, ret>>
                  /\ \E accepted \in BOOLEAN :
                        IF accepted
                        THEN /\ composer' = composer \cup {import}
                             /\ UNCHANGED <<errors, rejected>>
                        ELSE /\ push_error(format_compose_error(import))
                             /\ rejected' = rejected \cup {import}
                             /\ UNCHANGED composer
    /\ UNCHANGED <<disk, exports, includes, constVars, reqs, next_reqs, iter,
                   import_order, rootSubmitted, readOk, parseVars>>

\* compose without lines 196-198
CheckErrorsSkipped ==
    /\ pc = "imports"
    /\ idx > Len(import_order.imports)
    /\ pc' = "root"
    /\ UNCHANGED <<disk, exports, includes, constVars, errors, dependents,
                   reqs, next_reqs, iter, composer, submitted, rejected, import_order, idx,
                   rootSubmitted, ret, readOk, parseVars>>

\* 196-198: if !self.errors.is_empty() { return None; }
CheckErrors ==
    /\ pc = "imports"
    /\ idx > Len(import_order.imports)
    /\ IF errors # <<>>
       THEN Return("None")
       ELSE /\ pc' = "root"
            /\ UNCHANGED ret
    /\ UNCHANGED <<disk, exports, includes, constVars, errors, dependents,
                   reqs, next_reqs, iter, composer, submitted, rejected, import_order, idx,
                   rootSubmitted, readOk, parseVars>>

\* 200-221: the root's descriptor and composer.make_naga_module
LinkRoot ==
    /\ pc = "root"
    /\ \E desc \in DescriptorResults(Root) :
          IF desc # <<>>
          THEN /\ errors' = errors \o desc
               /\ Return("None")
               /\ UNCHANGED <<submitted, rejected, rootSubmitted>>
          ELSE /\ submitted' = Append(submitted, Root)
               /\ rootSubmitted' = TRUE
               /\ \E linked \in BOOLEAN :
                     IF linked
                     THEN /\ Return("Some")
                          /\ UNCHANGED <<errors, rejected>>
                     ELSE /\ push_error(format_compose_error(Root))
                          /\ rejected' = rejected \cup {Root}
                          /\ Return("None")
    /\ UNCHANGED <<disk, exports, includes, constVars, dependents, reqs,
                   next_reqs, iter, composer, import_order, idx, readOk, parseVars>>

\* 224-228: let module = self.compose().unwrap_or_default(); ShaderResult::new(self, module)
complete ==
    /\ pc = "returned"
    /\ pc' = "done"
    /\ UNCHANGED <<composeVars, constVars, parseVars>>

\* Sourcecode::new, 75-85, for every root file, registry and disk
\* The constants of the runs of compose: none, or one that converts followed
\* by one that does not (ConstSpec runs the loop over every list)
ComposeConstants ==
    {<<>>,
     <<Decl("A", TypedValue("UInt", IntLit(FALSE, <<3, 0, 0, 0, 0, 0, 0, 0, 0, 0>>))),
       Decl("B", TypedValue("Int", IntLit(FALSE, <<3, 0, 0, 0, 0, 0, 0, 0, 0, 0>>)))>>}

\* Sourcecode::new, 75-85, then compose up to line 112
Start(d, registry, consts) ==
    /\ pc = "defs"
    /\ disk = d
    /\ exports = d[Root].exported
    /\ includes = registry
    /\ constants = consts
    /\ next_const = 1
    /\ shader_defs = DebugDefs(TRUE)
    /\ errors = <<>>
    /\ dependents = <<>>
    /\ reqs = {}
    /\ next_reqs = {}
    /\ iter = {}
    /\ composer = {}
    /\ submitted = <<>>
    /\ rejected = {}
    /\ import_order = Pending
    /\ idx = 1
    /\ rootSubmitted = FALSE
    /\ ret = "pending"
    /\ readOk = FALSE
    /\ input = <<>>
    /\ include_paths = <<>>
    /\ new_includes = EmptyMap
    /\ log = <<>>

\* every root file, disk, registry and list of constants of the bounds
Init ==
    \E d \in Disks, r \in Registries, c \in ComposeConstants : Start(d, Registered(r), c)

Next ==
    \/ InsertShaderDef
    \/ ReadRoot
    \/ WhileHead
    \/ ForBody
    \/ ForEnd
    \/ find_import_order
    \/ AddImport
    \/ CheckErrors
    \/ LinkRoot
    \/ complete

Spec == Init /\ [][Next]_vars

\* Lines 121-162 alone: the read of the root text and the loop over reqs,
\* for every registry and every set of requirements of the root.  compose is
\* sequential code: whenever a step is possible, one is taken.
SaturationDisks ==
    {d \in Disks : d[Root].exported = {} /\ \A f \in Files(d) : d[f].imports = {}}

SaturationInit ==
    \E d \in SaturationDisks, r \in Registries : Start(d, Registered(r), <<>>)

SaturationNext ==
    \/ ReadRoot
    \/ WhileHead
    \/ ForBody
    \/ ForEnd

SaturationSpec == SaturationInit /\ [][SaturationNext]_vars /\ WF_vars(SaturationNext)

----------------------------------------------------------------------------
(* The shader-def loop alone, over every list of sampled declarations *)

MaxConstants == 2

\* the constant declarations `name = Type(literal)` of the runs
Decls == {Decl(name, v) : name \in {"A", "B"}, v \in TypedValues}

ConstInit ==
    /\ pc = "defs"
    /\ \E n \in 1..MaxConstants : constants \in [1..n -> Decls]
    /\ next_const = 1
    /\ shader_defs = DebugDefs(TRUE)
    /\ disk = [f \in {Root} |-> FileText({}, {})]
    /\ exports = {}
    /\ includes = EmptyMap
    /\ errors = <<>>
    /\ dependents = <<>>
    /\ reqs = {}
    /\ next_reqs = {}
    /\ iter = {}
    /\ composer = {}
    /\ submitted = <<>>
    /\ rejected = {}
    /\ import_order = Pending
    /\ idx = 1
    /\ rootSubmitted = FALSE
    /\ ret = "pending"
    /\ readOk = FALSE
    /\ input = <<>>
    /\ include_paths = <<>>
    /\ new_includes = EmptyMap
    /\ log = <<>>

ConstNext == InsertShaderDef

ConstSpec == ConstInit /\ [][ConstNext]_vars

----------------------------------------------------------------------------
(* MacroInput::parse, lib.rs 117-228: the `includes = [...]` arm.  A path   *)
(* and a name are sequences of pieces of text; a name also says whether it  *)
(* is written in quotes.                                                    *)

ManifestDir == <<"/", "m">>                 \* env::var("CARGO_MANIFEST_DIR")
IncDir == ManifestDir \o <<"/", "inc">>
FileA == IncDir \o <<"/", "a.wgsl">>
FileB == IncDir \o <<"/", "b.wgsl">>
FileC == IncDir \o <<"\\", "a.wgsl">>      \* a file whose name holds a backslash

IncludeFiles == {FileA, FileB, FileC}
DirEntries(buf) == IF buf = IncDir THEN {FileA, FileB} ELSE {}

\* what an `includes` list may name: the directory and the file with the
\* backslash relative to the manifest directory, a file of the directory
\* by its absolute path
IncludePaths == {<<"inc">>, FileA, <<"inc", "\\", "a.wgsl">>}

\* 137-148: a path that does not start with "/" is taken from the manifest directory
ToPathBuf(path) == IF Head(path) = "/" THEN path ELSE ManifestDir \o <<"/">> \o path

Name(quoted, text) == [quoted |-> quoted, text |-> text]
NoName == Name(FALSE, <<>>)

\* what naga_oil::compose::get_preprocessor_data and the text hold of a file
Text(name, imports, source) == [name |-> name, reqs |-> imports, source |-> source]
Unreadable == Text(NoName, <<>>, <<"unreadable">>)

Texts ==
    {Unreadable,
     Text(NoName, <<>>, <<"fn", "f">>),
     Text(Name(FALSE, <<"util">>), <<"dep">>, <<"@export", "fn", "g", "@export", "h">>),
     Text(Name(TRUE, <<"./", "util">>), <<"dep", "dep2">>, <<"fn", "@export", "k">>),
     Text(Name(TRUE, <<"util">>), <<>>, <<"fn", "m">>)}

\* buf.to_string_lossy().replace("\\", "/")
ReplaceBackslash(path) == [i \in 1..Len(path) |-> IF path[i] = "\\" THEN "/" ELSE path[i]]

\* 175-178: name.unwrap_or(format!(r#""{}""#, ...))
NameOrPath(name, buf) == IF name = NoName THEN Name(TRUE, ReplaceBackslash(buf)) ELSE name

\* 180-183: name.strip_prefix(r#""./"#).map(|name| format!(r#""{name}"#)).unwrap_or(name)
StripDotSlash(name) ==
    IF name.quoted /\ name.text # <<>> /\ Head(name.text) = "./"
    THEN Name(TRUE, Tail(name.text))
    ELSE name

\* 197: source.replace("@export", "")
RemoveExport(source) == SelectSeq(source, LAMBDA t : t # "@export")

Warning(name) == [ev |-> "warning", name |-> name, path |-> <<>>]
Including(name, buf) == [ev |-> "including", name |-> name, path |-> buf]
Failed(buf) == [ev |-> "error", name |-> NoName, path |-> buf]

\* 188-190: the name is already registered
IsDuplicate(name) == name \in DOMAIN new_includes \/ name \in DOMAIN includes

\* a registry that keeps the entry it already has
ExtendKeepingFirst(map, new) ==
    [k \in DOMAIN map \cup DOMAIN new |-> IF k \in DOMAIN map THEN map[k] ELSE new[k]]

\* 203: includes.extend(new_includes)
Extend(map, new) ==
    [k \in DOMAIN map \cup DOMAIN new |-> IF k \in DOMAIN new THEN new[k] ELSE map[k]]

nonParseVars == <<exports, constVars, errors, dependents, reqs, next_reqs, iter, composer,
                  submitted, rejected, import_order, idx, rootSubmitted, ret, readOk>>

\* 130-151: `includes` `=` `[` paths `]`, then the stack of paths and new_includes
ParseIncludes ==
    /\ pc = "parse"
    /\ input # <<>>
    /\ include_paths' = [i \in 1..Len(Head(input)) |-> ToPathBuf(Head(input)[i])]
    /\ input' = Tail(input)
    /\ new_includes' = EmptyMap
    /\ pc' = "paths"
    /\ UNCHANGED <<disk, includes, log, nonParseVars>>

\* 153-201: one round of `while let Some(buf) = include_paths.pop()`
PopPath ==
    /\ pc = "paths"
    /\ include_paths # <<>>
    /\ LET buf == include_paths[Len(include_paths)]
           rest == SubSeq(include_paths, 1, Len(include_paths) - 1)
       IN  IF buf = IncDir
           THEN \E readable \in BOOLEAN :
                   IF readable
                   THEN /\ \E entries \in Perms(DirEntries(buf)) :
                              include_paths' = rest \o entries
                        /\ UNCHANGED <<pc, new_includes, log>>
                   ELSE /\ pc' = "error"
                        /\ log' = Append(log, Failed(buf))
                        /\ include_paths' = rest
                        /\ UNCHANGED new_includes
           ELSE IF disk[buf] = Unreadable
           THEN /\ pc' = "error"
                /\ log' = Append(log, Failed(buf))
                /\ include_paths' = rest
                /\ UNCHANGED new_includes
           ELSE LET name == StripDotSlash(NameOrPath(disk[buf].name, buf)) IN
                /\ log' = IF IsDuplicate(name)
                          THEN log \o <<Warning(name), Including(name, buf)>>
                          ELSE Append(log, Including(name, buf))
                /\ new_includes' = Insert(new_includes, name,
                        Include(disk[buf].reqs, buf, RemoveExport(disk[buf].source)))
                /\ include_paths' = rest
                /\ UNCHANGED pc
    /\ UNCHANGED <<disk, includes, input, nonParseVars>>

\* 203: includes.extend(new_includes);
ExtendIncludes ==
    /\ pc = "paths"
    /\ include_paths = <<>>
    /\ includes' = Extend(includes, new_includes)
    /\ pc' = "parse"
    /\ UNCHANGED <<disk, input, include_paths, new_includes, log, nonParseVars>>

\* 123 and 222-226: the input is empty: Ok(Self { wgsl_path, includes, constants })
ParseOk ==
    /\ pc = "parse"
    /\ input = <<>>
    /\ pc' = "parsed"
    /\ UNCHANGED <<disk, includes, parseVars, nonParseVars>>

MaxKeys == 2      \* `includes` keys of one macro input

IncludeLists ==
    {<<>>} \cup {<<p>> : p \in IncludePaths} \cup {<<p, q>> : p, q \in IncludePaths}

ParseInit ==
    /\ pc = "parse"
    /\ disk \in [IncludeFiles -> Texts]
    /\ input \in UNION {[1..n -> IncludeLists] : n \in 1..MaxKeys}
    /\ includes = EmptyMap
    /\ include_paths = <<>>
    /\ new_includes = EmptyMap
    /\ log = <<>>
    /\ exports = {}
    /\ constants = <<>>
    /\ next_const = 1
    /\ shader_defs = EmptyMap
    /\ errors = <<>>
    /\ dependents = <<>>
    /\ reqs = {}
    /\ next_reqs = {}
    /\ iter = {}
    /\ composer = {}
    /\ submitted = <<>>
    /\ rejected = {}
    /\ import_order = Pending
    /\ idx = 1
    /\ rootSubmitted = FALSE
    /\ ret = "pending"
    /\ readOk = FALSE

ParseNext ==
    \/ ParseIncludes
    \/ PopPath
    \/ ExtendIncludes
    \/ ParseOk

ParseSpec == ParseInit /\ [][ParseNext]_vars

----------------------------------------------------------------------------
(* C6: which declarations convert, and to what *)

RECURSIVE LexLeq(_, _)
LexLeq(a, b) ==
    IF a = <<>> THEN TRUE
    ELSE IF Head(a) # Head(b) THEN Head(a) < Head(b)
    ELSE LexLeq(Tail(a), Tail(b))

\* the number written with digits a is at most the number written with digits b
DigitsLeq(a, b) == Len(a) < Len(b) \/ (Len(a) = Len(b) /\ LexLeq(a, b))

TwoTo31 == <<2, 1, 4, 7, 4, 8, 3, 6, 4, 8>>
TwoTo31Less1 == <<2, 1, 4, 7, 4, 8, 3, 6, 4, 7>>
TwoTo32Less1 == <<4, 2, 9, 4, 9, 6, 7, 2, 9, 5>>
ThreeBillion == IntLit(FALSE, <<3, 0, 0, 0, 0, 0, 0, 0, 0, 0>>)

\* the literal is an integer in [-2^31, 2^31 - 1]
InI32Range(lit) ==
    /\ lit.kind = "Int"
    /\ IF lit.neg THEN DigitsLeq(lit.digits, TwoTo31) ELSE DigitsLeq(lit.digits, TwoTo31Less1)

\* the literal is an integer in [0, 2^32 - 1]
InU32Range(lit) ==
    /\ lit.kind = "Int"
    /\ lit.neg => lit.digits = <<0>>
    /\ DigitsLeq(lit.digits, TwoTo32Less1)

\* the base-10 digits of a non-positive i32, of a non-negative i32, of a u32
RECURSIVE DigitsOfNeg(_)
DigitsOfNeg(n) ==
    LET d == (10 - (n % 10)) % 10
        q == (n + d) \div 10
    IN  IF q = 0 THEN <<d>> ELSE Append(DigitsOfNeg(q), d)

RECURSIVE DigitsOfPos(_)
DigitsOfPos(n) == IF n < 10 THEN <<n>> ELSE Append(DigitsOfPos(n \div 10), n % 10)

RECURSIVE DigitsOfU32(_)
DigitsOfU32(v) ==
    LET rest == (v[1] % 10) * Limb + v[2]
        q == <<v[1] \div 10 + (rest \div 10) \div Limb, (rest \div 10) % Limb>>
    IN  IF q = <<0, 0>> THEN <<rest % 10>> ELSE Append(DigitsOfU32(q), rest % 10)

\* the shader def holds the number the literal writes
SameNumber(def, lit) ==
    CASE def.ty = "Bool" -> lit.kind = "Bool" /\ def.value = lit.bool
      [] def.ty = "Int" ->
            /\ lit.kind = "Int"
            /\ IF def.value < 0
               THEN lit.neg /\ DigitsOfNeg(def.value) = lit.digits
               ELSE DigitsOfPos(def.value) = lit.digits /\ (lit.neg => def.value = 0)
      [] def.ty = "UInt" ->
            /\ lit.kind = "Int"
            /\ DigitsOfU32(def.value) = lit.digits
            /\ lit.neg => def.value = <<0, 0>>
      [] OTHER -> FALSE

\* the declarations the claim says convert
ClaimedToConvert(tv) ==
    \/ tv.ty = "Bool" /\ tv.value.kind = "Bool"
    \/ tv.ty = "Int" /\ InI32Range(tv.value)
    \/ tv.ty = "UInt" /\ InU32Range(tv.value)

\* the same, with a UInt literal written without a minus sign
ConvertsUnsigned(tv) ==
    \/ tv.ty = "Bool" /\ tv.value.kind = "Bool"
    \/ tv.ty = "Int" /\ InI32Range(tv.value)
    \/ tv.ty = "UInt" /\ InU32Range(tv.value) /\ ~tv.value.neg

\* the last declaration of 1..n that names what constants[i] names
LastOf(i, n) == \A j \in (i + 1)..n : constants[j].name # constants[i].name

ConversionsAgree(Converts(_)) ==
    /\ \A i \in 1..(next_const - 1) :
          /\ Converts(constants[i].value)
          /\ constants[i].name \in DOMAIN shader_defs
          /\ LastOf(i, next_const - 1) =>
                /\ shader_defs[constants[i].name].ty = constants[i].value.ty
                /\ SameNumber(shader_defs[constants[i].name], constants[i].value.value)
    /\ pc = "panic" => ~Converts(constants[next_const].value)

\* C6 as claimed: a declaration converts exactly when it is Bool of a boolean,
\* Int of an integer in [-2^31, 2^31-1] or UInt of an integer in [0, 2^32-1],
\* the shader def then holds the literal's number, and anything else panics.
C6_ConvertsExactlyInRange == ConversionsAgree(ClaimedToConvert)

\* C6 amended: as claimed, except that UInt takes only a literal written
\* without a minus sign (UInt(-0) panics); Int(3000000000) panics and
\* UInt(3000000000) converts.
C6_ConvertsExactlyInRangeUnsigned ==
    /\ ConversionsAgree(ConvertsUnsigned)
    /\ ~ShaderDefValueFrom(TypedValue("Int", ThreeBillion)).ok
    /\ ShaderDefValueFrom(TypedValue("UInt", ThreeBillion)).ok

\* UInt(3000000000) was converted and Int(3000000000) then panicked
C6_Witness ==
    /\ pc = "panic"
    /\ next_const = 2
    /\ constants[1].value = TypedValue("UInt", ThreeBillion)
    /\ constants[2].value = TypedValue("Int", ThreeBillion)
    /\ SameNumber(shader_defs[constants[1].name], ThreeBillion)

----------------------------------------------------------------------------
(* C5: several registrations of one name *)

RegisteredAt(i) == log[i].ev = "including"

\* an earlier registration has the name of the registration at i
AlreadyPresent(i) == \E j \in 1..(i - 1) : RegisteredAt(j) /\ log[j].name = log[i].name

LastRegistration(i) ==
    /\ RegisteredAt(i)
    /\ \A j \in (i + 1)..Len(log) : ~(RegisteredAt(j) /\ log[j].name = log[i].name)

\* C5: registering a name again does not fail the parse, every registration
\* of a name already present is preceded by its warning (and no other is),
\* and the parsed registry maps each name to the sub-requirements, the path
\* and the text of the registration processed last.
C5_LastRegistrationWins ==
    /\ \A i \in 1..Len(log) :
          /\ RegisteredAt(i) =>
                (AlreadyPresent(i) <=> (i > 1 /\ log[i - 1] = Warning(log[i].name)))
          /\ log[i].ev = "warning" =>
                i < Len(log) /\ RegisteredAt(i + 1) /\ log[i + 1].name = log[i].name
    /\ pc = "error" =>
          /\ log # <<>>
          /\ log[Len(log)].ev = "error"
          /\ log[Len(log)].path = IncDir \/ disk[log[Len(log)].path] = Unreadable
    /\ pc = "parsed" =>
          /\ DOMAIN includes = {log[i].name : i \in {j \in 1..Len(log) : RegisteredAt(j)}}
          /\ \A i \in 1..Len(log) : LastRegistration(i) =>
                LET file == disk[log[i].path] IN
                /\ includes[log[i].name].subreqs = file.reqs
                /\ includes[log[i].name].path = log[i].path
                /\ includes[log[i].name].src = SelectSeq(file.source, LAMBDA t : t # "@export")

\* a name was registered in one `includes` list and again, from another file,
\* in a later one: the warning was logged and the later file is in the registry
C5_Witness ==
    /\ pc = "parsed"
    /\ input = <<>>
    /\ \E i, j \in 1..Len(log) :
          /\ i < j
          /\ RegisteredAt(i) /\ LastRegistration(j)
          /\ log[i].name = log[j].name
          /\ log[i].path # log[j].path
          /\ disk[log[i].path] # disk[log[j].path]
          /\ log[j - 1] = Warning(log[j].name)
          /\ includes[log[j].name].path = log[j].path

----------------------------------------------------------------------------
(* Claims about compose and complete *)

Diagnostics == {errors[i] : i \in 1..Len(errors)}
Submitted == {submitted[i] : i \in 1..Len(submitted)}
Dependents == {dependents[i] : i \in 1..Len(dependents)}

\* compose ended: it returned and complete built the result, or it panicked
\* after the root text was read
Ended == pc = "done" \/ (pc = "panic" /\ readOk)

\* C1: at the end of complete exactly one of `errors` non-empty and `compose
\* returned a module` holds.
C1_DiagnosticsOrModule == pc = "done" => ((errors # <<>>) <=> (ret # "Some"))

\* what the text of a module requires
Requires(n) ==
    IF n \in DOMAIN includes THEN includes[n].subreqs ELSE disk[n].imports

\* C2: every module handed to the Composition Engine comes after every module
\* it requires, and the root after all modules of the ImportOrder.
C2_SubmittedAfterRequirements ==
    \A i \in 1..Len(submitted) :
        /\ \A r \in Requires(submitted[i]) : \E j \in 1..(i - 1) : submitted[j] = r
        /\ submitted[i] = Root =>
              \A k \in 1..Len(import_order.imports) :
                  \E j \in 1..(i - 1) : submitted[j] = import_order.imports[k]

\* C3: with a cycle among the files reachable from the root nothing is ever
\* handed to the Composition Engine, and once the import order was calculated
\* the run ends with the CyclicImport diagnostic of that cycle and no module.
C3_CycleStopsComposition ==
    HasCycle =>
        /\ submitted = <<>>
        /\ (pc = "done" /\ import_order # Pending /\ Unresolved = {}) =>
              /\ \E f \in Reachable : errors = <<Diag("CyclicImport", CycleOf(f))>>
              /\ ret = "None"

RootRequiresMissing ==
    \E n \in disk[Root].imports : n \notin DOMAIN includes /\ n \notin Files(disk)

\* C4: a root that requires a name neither registered nor on disk ends with
\* exactly one diagnostic, an unresolved import, no module, and the root never
\* handed to the Composition Engine.
C4_MissingImportOneDiagnostic ==
    (readOk /\ RootRequiresMissing /\ Ended) =>
        /\ Len(errors) = 1
        /\ errors[1].kind = "UnresolvedImport"
        /\ ret = "None"
        /\ ~rootSubmitted

\* C7: after a successful resolution there is no diagnostic, the exports are
\* those of the root text, and dependents holds the path of every registered
\* include that was handed to the Composition Engine.
C7_DependentsHoldIncludes ==
    (pc = "done" /\ ret = "Some") =>
        /\ errors = <<>>
        /\ exports = disk[Root].exported
        /\ \A v \in DOMAIN includes : v \in Submitted => includes[v].path \in Dependents

\* C8: a rejected non-root module has its diagnostic in `errors` and the run
\* goes on: it does not panic, and when it ends every module of the
\* ImportOrder was handed to the Composition Engine.
C8_RejectionsAccumulate ==
    (rejected \ {Root} # {}) =>
        /\ \A n \in rejected \ {Root} : format_compose_error(n) \in Diagnostics
        /\ pc # "panic"
        /\ pc = "done" =>
              \A k \in 1..Len(import_order.imports) : import_order.imports[k] \in Submitted

\* C9: the loop `while !reqs.is_empty()` is left in every run
C9_SaturationTerminates == <>(pc \notin {"defs", "while", "for"})

\* C10: the root is handed to make_naga_module only with `errors` empty: with
\* a diagnostic of the import order, of a descriptor or of a rejected non-root
\* module in `errors`, the root was not submitted and no module is returned;
\* after the root was submitted `errors` holds at most its link failure.
C10_RootLinkedOnlyWhenClean ==
    /\ (\E e \in Diagnostics : e # format_compose_error(Root)) =>
          ~rootSubmitted /\ Root \notin Submitted /\ ret # "Some"
    /\ rootSubmitted => Diagnostics \subseteq {format_compose_error(Root)}

\* a module of the ImportOrder was rejected, the loop went on to the end, and
\* compose returned None without linking the root
C10_Witness ==
    /\ pc = "done"
    /\ ret = "None"
    /\ ~rootSubmitted
    /\ import_order.ok
    /\ idx > Len(import_order.imports)
    /\ \E f \in Files(disk) : f \in rejected /\ errors = <<format_compose_error(f)>>

====
